---- MODULE Spec2Model ----
(***************************************************************************)
(* Incremental file-pair reconciliation pipeline of crawled-news-checker:  *)
(* the controller processRecentFiles and the services and models it calls. *)
(* One run is a sequence of steps (ledger read + listing, one fetch-loop   *)
(* iteration per listed object, content assembly, existence check, article *)
(* save, ledger save, return); the object store changes between runs.      *)
(***************************************************************************)
EXTENDS Integers, Sequences, FiniteSets, TLC

(***************************************************************************)
(* Bounds of the model.                                                    *)
(***************************************************************************)
MaxTime == 2
MaxRuns == 3
MaxFiles == 3
MaxMinute == 41

(***************************************************************************)
(* Configuration (config/index.js).                                        *)
(***************************************************************************)
htmlFileName == "page.html"
metadataFileName == "metadata.json"
minContentLength == 100
defaultUrl == "https://example.com"

(***************************************************************************)
(* JavaScript values.  null and absent records are the empty sequence, a   *)
(* present record r is <<r>>.  Scalars are tagged so that undefined, null, *)
(* strings, numbers and Dates stay distinct.                               *)
(***************************************************************************)
NULL == <<>>
Some(r) == <<r>>
IsNull(o) == o = <<>>
Get(o) == o[1]

Undef == [t |-> "undefined", s |-> "", n |-> 0]
JsNull == [t |-> "null", s |-> "", n |-> 0]
Str(x) == [t |-> "string", s |-> x, n |-> 0]
Num(k) == [t |-> "number", s |-> "", n |-> k]
DateOf(x) == [t |-> "date", s |-> x, n |-> 0]

\* JavaScript truthiness of a scalar
Truthy(v) ==
  \/ v.t = "string" /\ v.s # ""
  \/ v.t = "number" /\ v.n # 0
  \/ v.t = "date"

\* a || b
OrElse(a, b) == IF Truthy(a) THEN a ELSE b

(***************************************************************************)
(* Object keys.  A key is the list of its "/"-separated segments, which is *)
(* what key.split("/") returns.                                            *)
(***************************************************************************)
Domains == {"ex.com"}
Hashes == {"h1", "h2"}
MkKey(d, h, f) == <<"", d, h, f>>
AllKeys == {MkKey(d, h, f) : d \in Domains, h \in Hashes,
                             f \in {htmlFileName, metadataFileName}}

\* the keys of the pair that is uploaded and re-uploaded between runs
LiveKeys == {MkKey("ex.com", "h1", f) : f \in {htmlFileName, metadataFileName}}

\* the object store lists keys in lexicographic order
ListingOrder ==
  << MkKey("ex.com", "h1", metadataFileName), MkKey("ex.com", "h1", htmlFileName),
     MkKey("ex.com", "h2", metadataFileName), MkKey("ex.com", "h2", htmlFileName) >>

\* key.endsWith("/" + name)
EndsWithName(key, name) == Len(key) >= 2 /\ key[Len(key)] = name

IsHtmlKey(key) == EndsWithName(key, htmlFileName)
IsMetadataKey(key) == EndsWithName(key, metadataFileName)

\* `${domain}/${hash}` of a key with at least three segments
GroupKeyOf(key) == <<key[2], key[3]>>

(***************************************************************************)
(* Date.prototype.toISOString: milliseconds since the epoch rendered as    *)
(* date-time to the second plus a three-digit millisecond field.           *)
(***************************************************************************)
ToISOString(d) == [sec |-> d \div 1000, ms |-> d % 1000]

(***************************************************************************)
(* Strings the model uses, with String.prototype.length, trim().length,    *)
(* startsWith("http") and the URL constructor tabulated over them.         *)
(***************************************************************************)
StrLength(x) ==
  CASE x = "text1" -> 500
    [] x = "text2" -> 600
    [] x = "short" -> 40
    [] x = "" -> 0
    [] OTHER -> 20

\* the model's texts carry no surrounding white space
TrimLength(x) == StrLength(x)

StartsWithHttp(x) == x \in {"https://ex.com/a", "https://example.com", "http//broken"}

\* new URL(x) does not throw
IsAbsoluteUrl(x) == x \in {"https://ex.com/a", "https://example.com", "ftp://ex.com/f"}

\* new Date(x) is a Date for every string; an unparsable one gives Invalid Date
NewDate(x) == DateOf(IF x \in {"2024-01-01"} THEN x ELSE "Invalid Date")

(***************************************************************************)
(* Object bodies.  A body is named by an identifier; JSONParse and         *)
(* Readability say what the identifier stands for.                         *)
(***************************************************************************)
MetaObj(u, c, d) ==
  [type |-> "object", url |-> u, crawl_time |-> c, depth |-> d, error |-> Undef]

MetaNull == [type |-> "null", url |-> Undef, crawl_time |-> Undef, depth |-> Undef, error |-> Undef]

\* a sentinel that carries an (empty) url field
MetaSentinel_WithUrl ==
  [type |-> "object", url |-> Str(""), crawl_time |-> Undef, depth |-> Undef,
   error |-> Str("Invalid JSON")]

\* { error: "Invalid JSON" }
MetaSentinel ==
  [type |-> "object", url |-> Undef, crawl_time |-> Undef, depth |-> Undef,
   error |-> Str("Invalid JSON")]

\* a JSON number, string or array: truthy, and none of the fields is defined
MetaScalar ==
  [type |-> "scalar", url |-> Undef, crawl_time |-> Undef, depth |-> Undef, error |-> Undef]

MetaBodies ==
  {"m_good", "m_badurl", "m_empty", "m_null", "m_invalid",
   "m_urlnum", "m_urlempty", "m_nourl", "m_ftp", "m_httpbad", "m_scalar", "m_baddate",
   "m_depth0"}
HtmlBodies == {"h_long1", "h_long2", "h_short", "h_none"}

\* JSON.parse(content): ok = FALSE when it throws
JSONParse(b) ==
  CASE b = "m_good" ->
         [ok |-> TRUE, value |-> MetaObj(Str("https://ex.com/a"), Str("2024-01-01"), Num(1))]
    [] b = "m_badurl" ->
         [ok |-> TRUE, value |-> MetaObj(Str("not a url"), Str("2024-01-01"), Num(1))]
    [] b = "m_empty" -> [ok |-> TRUE, value |-> MetaObj(Undef, Undef, Undef)]
    [] b = "m_null" -> [ok |-> TRUE, value |-> MetaNull]
    [] b = "m_urlnum" ->
         [ok |-> TRUE, value |-> MetaObj(Num(5), Str("2024-01-01"), Num(1))]
    [] b = "m_urlempty" ->
         [ok |-> TRUE, value |-> MetaObj(Str(""), Str("2024-01-01"), Num(1))]
    [] b = "m_nourl" -> [ok |-> TRUE, value |-> MetaObj(Undef, Str("2024-01-01"), Undef)]
    [] b = "m_ftp" ->
         [ok |-> TRUE, value |-> MetaObj(Str("ftp://ex.com/f"), Str("2024-01-01"), Num(1))]
    [] b = "m_httpbad" ->
         [ok |-> TRUE, value |-> MetaObj(Str("http//broken"), Str("2024-01-01"), Num(1))]
    [] b = "m_scalar" -> [ok |-> TRUE, value |-> MetaScalar]
    [] b = "m_depth0" ->
         [ok |-> TRUE, value |-> MetaObj(Str("https://ex.com/a"), Str("2024-01-01"), Num(0))]
    [] b = "m_baddate" ->
         [ok |-> TRUE, value |-> MetaObj(Str("https://ex.com/a"), Str("not a date"), Num(1))]
    [] OTHER -> [ok |-> FALSE, value |-> MetaNull]

\* new Readability(document).parse(): the external extraction capability
Readability(b) ==
  CASE b = "h_long1" ->
         Some([title |-> "T1", excerpt |-> "E1", textContent |-> "text1", content |-> "c1",
               isPotentiallyEmpty |-> FALSE])
    [] b = "h_long2" ->
         Some([title |-> "T2", excerpt |-> "E2", textContent |-> "text2", content |-> "c2",
               isPotentiallyEmpty |-> FALSE])
    [] b = "h_short" ->
         Some([title |-> "T3", excerpt |-> "", textContent |-> "short", content |-> "c3",
               isPotentiallyEmpty |-> FALSE])
    [] OTHER -> NULL

(***************************************************************************)
(* services/parser.js                                                      *)
(***************************************************************************)
\* domOptions.url: none when url.startsWith is not a function
DomUrl(url) ==
  IF Truthy(url) /\ url.t # "string" THEN NULL
  ELSE Some(IF Truthy(url) /\ StartsWithHttp(url.s) THEN url.s ELSE defaultUrl)

\* parseHtml(html, url): url is the scalar the controller passes
parseHtml(html, url) ==
  IF IsNull(DomUrl(url))
  THEN NULL                                   \* url.startsWith is not a function
  ELSE LET domUrl == Get(DomUrl(url))
           article == Readability(html)
       IN IF ~IsAbsoluteUrl(domUrl)
          THEN NULL                           \* new JSDOM throws on an invalid url
          ELSE IF ~IsNull(article) /\ Get(article).textContent # ""
                  /\ TrimLength(Get(article).textContent) < minContentLength
               THEN Some([Get(article) EXCEPT !.isPotentiallyEmpty = TRUE])
               ELSE article

\* an extraction that asks for the url field
extractMetadata_UrlOnly(metadata) ==
  IF metadata.type = "null" \/ metadata.url = Undef THEN NULL
  ELSE Some([url |-> metadata.url,
             crawl_time |-> metadata.crawl_time,
             depth |-> metadata.depth,
             crawl_datetime |->
               IF Truthy(metadata.crawl_time)
               THEN NewDate(metadata.crawl_time.s)
               ELSE Undef])

extractMetadata(metadata) ==
  IF metadata.type = "null" THEN NULL
  ELSE IF metadata.url = Undef /\ metadata.crawl_time = Undef /\ metadata.depth = Undef
       THEN NULL
       ELSE Some([url |-> metadata.url,
                  crawl_time |-> metadata.crawl_time,
                  depth |-> metadata.depth,
                  crawl_datetime |->
                    IF Truthy(metadata.crawl_time)
                    THEN NewDate(metadata.crawl_time.s)
                    ELSE Undef])

\* a test that accepts every non-empty string as a url
hasValidUrl_AnyString(metadata) ==
  metadata.type # "null" /\ Truthy(metadata.url) /\ metadata.url.t = "string"

hasValidUrl(metadata) ==
  IF metadata.type = "null" THEN FALSE
  ELSE IF ~Truthy(metadata.url) \/ metadata.url.t # "string" THEN FALSE
       ELSE IsAbsoluteUrl(metadata.url.s)

(***************************************************************************)
(* services/fileProcessor.js                                               *)
(***************************************************************************)
\* a status rule that looks for a missing sub-record before a failed one
getOverallStatus_MissingFirst(files) ==
  IF IsNull(files.html) /\ IsNull(files.metadata) THEN "unknown"
  ELSE IF IsNull(files.html) \/ IsNull(files.metadata) THEN "incomplete"
  ELSE IF Get(files.html).status = "failed" \/ Get(files.metadata).status = "failed"
       THEN "failed"
       ELSE "success"

\* files: [html |-> NULL or <<sub-record>>, metadata |-> the same]
getOverallStatus(files) ==
  IF IsNull(files.html) /\ IsNull(files.metadata) THEN "unknown"
  ELSE LET html == IF IsNull(files.html) THEN "missing" ELSE Get(files.html).status
           metadata == IF IsNull(files.metadata) THEN "missing" ELSE Get(files.metadata).status
       IN IF html = "failed" \/ metadata = "failed" THEN "failed"
          ELSE IF html = "missing" \/ metadata = "missing" THEN "incomplete"
          ELSE "success"

\* an article built without the essential-metadata test
createArticleObject_NoEssentialCheck(data) ==
  IF data.metadata.type = "null" \/ IsNull(data.parsed) THEN NULL
  ELSE LET parsed == Get(data.parsed)
       IN Some([id |-> <<data.domain, data.hash>>,
                domain |-> data.domain,
                hash |-> data.hash,
                title |-> parsed.title,
                excerpt |-> parsed.excerpt,
                content |-> parsed.textContent,
                contentLength |-> StrLength(parsed.textContent),
                isPotentiallyEmpty |-> parsed.isPotentiallyEmpty,
                url |-> OrElse(data.metadata.url, Str("")),
                crawl_time |-> OrElse(data.metadata.crawl_time, Str("")),
                crawl_datetime |-> JsNull,
                depth |-> OrElse(data.metadata.depth, Str(""))])

\* an article that is not built from a text flagged as potentially empty
createArticleObject_DropShort(data) ==
  IF data.metadata.type = "null" \/ IsNull(data.parsed) THEN NULL
  ELSE IF Get(data.parsed).isPotentiallyEmpty THEN NULL
  ELSE createArticleObject_NoEssentialCheck(data)

\* data: an entry of processedContent
createArticleObject(data) ==
  IF data.metadata.type = "null" \/ IsNull(data.parsed) THEN NULL
  ELSE LET metadata == extractMetadata(data.metadata)
           parsed == Get(data.parsed)
       IN IF IsNull(metadata) THEN NULL
          ELSE Some([id |-> <<data.domain, data.hash>>,
                     domain |-> data.domain,
                     hash |-> data.hash,
                     title |-> parsed.title,
                     excerpt |-> parsed.excerpt,
                     content |-> parsed.textContent,
                     contentLength |-> StrLength(parsed.textContent),
                     isPotentiallyEmpty |-> parsed.isPotentiallyEmpty,
                     url |-> OrElse(Get(metadata).url, Str("")),
                     crawl_time |-> OrElse(Get(metadata).crawl_time, Str("")),
                     crawl_datetime |-> OrElse(Get(metadata).crawl_datetime, JsNull),
                     depth |-> OrElse(Get(metadata).depth, Str(""))])

(***************************************************************************)
(* Insertion-ordered maps (JavaScript objects with string keys): a list of *)
(* [k, v] entries with distinct keys.                                      *)
(***************************************************************************)
EmptyMap == <<>>
MapKeys(m) == {m[j].k : j \in 1..Len(m)}
MapHas(m, key) == key \in MapKeys(m)
MapGet(m, key) == m[CHOOSE j \in 1..Len(m) : m[j].k = key].v
MapSet(m, key, val) ==
  IF MapHas(m, key)
  THEN [j \in 1..Len(m) |-> IF m[j].k = key THEN [k |-> key, v |-> val] ELSE m[j]]
  ELSE Append(m, [k |-> key, v |-> val])

\* the n-th element of key.split("/"), counted from 1; "undefined" past the end
Seg(key, n) == IF n <= Len(key) THEN key[n] ELSE "undefined"

(***************************************************************************)
(* services/fileProcessor.js: grouping and classification                  *)
(***************************************************************************)
\* a group key that forgets the hash
GroupKey_DomainOnly(domain, hash) == <<domain, "">>

\* `${domain}/${hash}`: segments hold no "/", so the string determines the two
GroupKey(domain, hash) == <<domain, hash>>

\* the forEach of groupFilesByHash over the files from position j on
RECURSIVE GroupFrom(_, _, _)
GroupFrom(files, j, grouped) ==
  IF j > Len(files) THEN grouped
  ELSE LET file == files[j]
           pathParts == file.Key
       IN IF Len(pathParts) >= 3
          THEN LET domain == pathParts[2]
                   hash == pathParts[3]
                   filename == IF Len(pathParts) >= 4 THEN pathParts[4] ELSE ""
                   groupKey == GroupKey(domain, hash)
                   group == IF MapHas(grouped, groupKey) THEN MapGet(grouped, groupKey)
                            ELSE [domain |-> domain, hash |-> hash, files |-> <<>>]
                   member == [key |-> file.Key, filename |-> filename,
                              size |-> file.Size, lastModified |-> file.LastModified]
               IN GroupFrom(files, j + 1,
                            MapSet(grouped, groupKey,
                                   [group EXCEPT !.files = Append(group.files, member)]))
          ELSE GroupFrom(files, j + 1, grouped)

\* a grouping that also wants the file name segment
groupFilesByHash_NeedsFileName(files) ==
  GroupFrom(SelectSeq(files, LAMBDA f : Len(f.Key) >= 4), 1, EmptyMap)

groupFilesByHash(files) == GroupFrom(files, 1, EmptyMap)

\* filenames.includes(name)
Includes(groupFiles, name) == \E j \in 1..Len(groupFiles) : groupFiles[j].filename = name

\* a classification that calls every pair with an HTML file broken
identifyBrokenLinks_HtmlOnly(groupedFiles) ==
  [g \in 1..Len(groupedFiles) |->
     LET group == groupedFiles[g].v
         hasHtml == Includes(group.files, htmlFileName)
         hasMetadata == Includes(group.files, metadataFileName)
     IN [k |-> groupedFiles[g].k,
         v |-> [domain |-> group.domain, hash |-> group.hash, files |-> group.files,
                isBroken |-> hasHtml,
                isComplete |-> hasHtml /\ hasMetadata]]]

identifyBrokenLinks(groupedFiles) ==
  [g \in 1..Len(groupedFiles) |->
     LET group == groupedFiles[g].v
         hasHtml == Includes(group.files, htmlFileName)
         hasMetadata == Includes(group.files, metadataFileName)
     IN [k |-> groupedFiles[g].k,
         v |-> [domain |-> group.domain, hash |-> group.hash, files |-> group.files,
                isBroken |-> hasHtml /\ ~hasMetadata,
                isComplete |-> hasHtml /\ hasMetadata]]]

(***************************************************************************)
(* State.                                                                  *)
(***************************************************************************)
VARIABLES
  s3,                   \* object store: key -> [lm, body]; lm = 0 when absent
  clock,                \* object-store time in milliseconds
  ledger,               \* collection crawled_processed_files, in natural order
  articles,             \* collection crawled_articles, in natural order
  pc,                   \* position of the run: idle, fetch, check, save, ledger, done
  runs,                 \* number of runs started
  saveToMongoDB,        \* argument of processRecentFiles
  processedFiles,       \* the map returned by getProcessedFiles
  recentFiles,          \* the listing
  idx,                  \* position of the fetch loop in recentFiles
  results,              \* readHtmlAndMetadata: results
  newlyProcessedFiles,  \* readHtmlAndMetadata: newlyProcessedFiles
  processingResults,    \* readHtmlAndMetadata: processingResults
  processedContent,     \* controller: processedContent
  invalidMetadataUrls,
  failedReadabilityLinks,
  articleCandidates,
  existingArticles,
  newArticles,
  skippedArticles,
  outcome,              \* none, ok (the run returned), error (the run threw)
  fetchLog,             \* keys passed to getFileContent in this run, in order
  submitted,            \* articles passed to the article bulkWrite in this run
  ledgerWrites,         \* ledger bulkWrite calls issued in this run
  failed,               \* steps of this run at which an error was raised
  ledgerAtStart,        \* the ledger when this run started
  articlesAtStart,      \* the article collection when this run started
  prev,                 \* summary of the previous run: what it fetched
                        \*   successfully if it wrote the ledger, what it
                        \*   tried to fetch if its article save failed, its
                        \*   candidates if it reconciled them
  everFetched,          \* <<key, lm>> fetched successfully by a finished run
                        \*   that wrote the ledger, while no store operation
                        \*   has ever failed
  everFailed,           \* TRUE once any store operation has failed
  domLog,               \* base URLs given to the DOM constructor in this run
  listing,              \* the order in which the store lists its keys
  other,                \* a second invocation of processRecentFiles that
                        \*   overlaps the first: its position and its locals
  fnPc,                 \* a call of a fileProcessor function: which step is next
  fnArg,                \* its argument
  fnRet,                \* what it has returned so far
  cronPc,               \* position of main() in the cron command
  minute,               \* wall-clock minute of the cron service
  jobs                  \* invocations of processRecentArticles, in start order

runVars ==
  << saveToMongoDB, processedFiles, recentFiles, idx, results, newlyProcessedFiles,
     processingResults, processedContent, invalidMetadataUrls, failedReadabilityLinks,
     articleCandidates, existingArticles, newArticles, skippedArticles, outcome >>

ghostVars ==
  << domLog, fetchLog, submitted, ledgerWrites, failed, ledgerAtStart, articlesAtStart,
     prev, everFetched, everFailed >>

fnVars == << fnPc, fnArg, fnRet >>

cronVars == << cronPc, minute, jobs >>

auxVars == << fnVars, cronVars, listing, other >>

vars == << s3, clock, ledger, articles, pc, runs, runVars, ghostVars, auxVars >>

NoPrev ==
  [any |-> FALSE, fetchedOk |-> {}, fetched |-> {}, ledgerWriteOk |-> FALSE,
   saveFailed |-> FALSE, candidates |-> <<>>, reconciled |-> FALSE]

\* an object that is not in the store
Absent == [lm |-> 0, body |-> ""]

\* the run-local and history variables before the first run
\* the second invocation before it is called
OtherIdle ==
  [pc |-> "idle", results |-> <<>>, articleCandidates |-> <<>>, newArticles |-> <<>>,
   next |-> 1, submitted |-> <<>>, outcome |-> "none"]

InitRun ==
  /\ other = OtherIdle
  /\ clock = 1
  /\ ledger = <<>>
  /\ articles = <<>>
  /\ pc = "idle"
  /\ runs = 0
  /\ saveToMongoDB = TRUE
  /\ processedFiles = EmptyMap
  /\ recentFiles = <<>>
  /\ idx = 1
  /\ results = <<>>
  /\ newlyProcessedFiles = <<>>
  /\ processingResults = EmptyMap
  /\ processedContent = <<>>
  /\ invalidMetadataUrls = <<>>
  /\ failedReadabilityLinks = <<>>
  /\ articleCandidates = <<>>
  /\ existingArticles = EmptyMap
  /\ newArticles = <<>>
  /\ skippedArticles = <<>>
  /\ outcome = "none"
  /\ fetchLog = <<>>
  /\ submitted = <<>>
  /\ ledgerWrites = 0
  /\ failed = {}
  /\ ledgerAtStart = <<>>
  /\ articlesAtStart = <<>>
  /\ domLog = <<>>
  /\ prev = NoPrev
  /\ everFetched = {}
  /\ everFailed = FALSE

\* no fileProcessor function is being called on its own
InitFnIdle ==
  /\ fnPc = "off"
  /\ fnArg = [kind |-> "none", files |-> <<>>, pair |-> [html |-> NULL, metadata |-> NULL]]
  /\ fnRet = [grouped |-> <<>>, status |-> ""]

\* the cron command has not been given
InitCronIdle ==
  /\ cronPc = "off"
  /\ minute = 0
  /\ jobs = <<>>

Init ==
  /\ s3 = [k \in AllKeys |->
             IF k \in LiveKeys
             THEN [lm |-> 1, body |-> IF IsHtmlKey(k) THEN "h_long1" ELSE "m_good"]
             ELSE Absent]
  /\ listing = ListingOrder
  /\ InitRun
  /\ InitFnIdle
  /\ InitCronIdle

(***************************************************************************)
(* models/processedFiles.js                                                *)
(***************************************************************************)
\* the forEach of getProcessedFiles over the rows from position j on
RECURSIVE FlattenRows(_, _, _)
FlattenRows(rows, j, map) ==
  IF j > Len(rows) THEN map
  ELSE LET pair == rows[j]
           m1 == IF ~IsNull(pair.html)
                 THEN MapSet(map, Get(pair.html).path, Get(pair.html).lastModified)
                 ELSE map
           m2 == IF ~IsNull(pair.metadata)
                 THEN MapSet(m1, Get(pair.metadata).path, Get(pair.metadata).lastModified)
                 ELSE m1
       IN FlattenRows(rows, j + 1, m2)

\* getProcessedFiles(): dbFails = the connection or the query throws
getProcessedFiles(rows, dbFails) ==
  IF dbFails THEN EmptyMap ELSE FlattenRows(rows, 1, EmptyMap)

\* fileName.endsWith(".html") / fileName.endsWith(".json")
FileTypeOf(fileName) ==
  IF fileName \in {"page.html", "index.html"} THEN "html"
  ELSE IF fileName \in {"metadata.json", "other.json"} THEN "metadata"
  ELSE "other"

\* first pass of saveProcessedFiles: organise the files by pair_id
RECURSIVE FilesByPair(_, _, _, _)
FilesByPair(newly, presults, j, byPair) ==
  IF j > Len(newly) THEN byPair
  ELSE LET key == newly[j].k
           lastModified == newly[j].v
       IN IF Len(key) < 4 THEN FilesByPair(newly, presults, j + 1, byPair)
          ELSE LET domain == key[2]
                   hash == key[3]
                   fileType == FileTypeOf(key[4])
                   pair_id == <<domain, hash>>
                   pair == IF MapHas(byPair, pair_id) THEN MapGet(byPair, pair_id)
                           ELSE [pair_id |-> pair_id, domain |-> domain, hash |-> hash,
                                 files |-> [html |-> NULL, metadata |-> NULL, other |-> NULL]]
                   result == IF MapHas(presults, key) THEN MapGet(presults, key)
                             ELSE [success |-> TRUE, error |-> ""]
                   sub == [path |-> key,
                           lastModified |-> lastModified,
                           status |-> IF result.success THEN "success" ELSE "failed",
                           error |-> result.error]
                   pair2 == [pair EXCEPT !.files[fileType] = Some(sub)]
               IN FilesByPair(newly, presults, j + 1, MapSet(byPair, pair_id, pair2))

\* a flag that looks at the HTML sub-record only
hasBoth_HtmlOnly(files) == ~IsNull(files.html)

\* !!(pair.files.html && pair.files.metadata)
hasBoth(files) == ~IsNull(files.html) /\ ~IsNull(files.metadata)

\* the documents saveProcessedFiles writes
LedgerDocuments(newly, presults) ==
  LET byPair == FilesByPair(newly, presults, 1, EmptyMap)
  IN [j \in 1..Len(byPair) |->
        LET pair == byPair[j].v
        IN [pair_id |-> pair.pair_id,
            domain |-> pair.domain,
            hash |-> pair.hash,
            html |-> pair.files.html,
            metadata |-> pair.files.metadata,
            hasBoth |-> hasBoth(pair.files),
            status |-> getOverallStatus(pair.files)]]

\* a write that inserts a new row every time
UpsertRow_InsertAlways(rows, doc) == Append(rows, doc)

\* a write that keeps the sub-records of the row that the document leaves null
UpsertRow_Merge(rows, doc) ==
  IF \E j \in 1..Len(rows) : rows[j].pair_id = doc.pair_id
  THEN [j \in 1..Len(rows) |->
          IF rows[j].pair_id = doc.pair_id
          THEN [doc EXCEPT !.html = IF IsNull(doc.html) THEN rows[j].html ELSE doc.html,
                           !.metadata = IF IsNull(doc.metadata) THEN rows[j].metadata
                                        ELSE doc.metadata]
          ELSE rows[j]]
  ELSE Append(rows, doc)

\* updateOne({pair_id: doc.pair_id}, {$set: doc}, {upsert: true})
UpsertRow(rows, doc) ==
  IF \E j \in 1..Len(rows) : rows[j].pair_id = doc.pair_id
  THEN LET first == CHOOSE j \in 1..Len(rows) :
                      /\ rows[j].pair_id = doc.pair_id
                      /\ \A h \in 1..(j - 1) : rows[h].pair_id # doc.pair_id
       IN [rows EXCEPT ![first] = doc]
  ELSE Append(rows, doc)

\* the ordered bulkWrite applied to its first n operations
RECURSIVE BulkUpsertRows(_, _, _)
BulkUpsertRows(rows, docs, n) ==
  IF n = 0 THEN rows
  ELSE UpsertRow(BulkUpsertRows(rows, docs, n - 1), docs[n])

(***************************************************************************)
(* models/articles.js                                                      *)
(***************************************************************************)
HasArticle(coll, id) == \E j \in 1..Len(coll) : coll[j]["_id"] = id

\* checkExistingArticles(articleIds): dbFails = the connection or the query throws
checkExistingArticles(coll, articleIds, dbFails) ==
  IF Len(articleIds) = 0 THEN EmptyMap
  ELSE IF dbFails THEN EmptyMap
  ELSE LET RECURSIVE Build(_, _)
           Build(j, map) ==
             IF j > Len(articleIds) THEN map
             ELSE Build(j + 1, MapSet(map, articleIds[j], HasArticle(coll, articleIds[j])))
       IN Build(1, EmptyMap)

\* { ...article, _id: article.id }
WithId(article) == ("_id" :> article.id) @@ article

\* a write that inserts a new document every time
UpsertArticle_InsertAlways(coll, doc) == Append(coll, doc)

\* updateOne({_id: article._id}, {$set: article}, {upsert: true})
UpsertArticle(coll, doc) ==
  IF HasArticle(coll, doc["_id"])
  THEN [j \in 1..Len(coll) |-> IF coll[j]["_id"] = doc["_id"] THEN doc ELSE coll[j]]
  ELSE Append(coll, doc)

RECURSIVE BulkUpsertArticles(_, _, _)
BulkUpsertArticles(coll, arts, n) ==
  IF n = 0 THEN coll
  ELSE UpsertArticle(BulkUpsertArticles(coll, arts, n - 1), WithId(arts[n]))

(***************************************************************************)
(* services/s3.js                                                          *)
(***************************************************************************)
\* getFilesModifiedAfter applied to the listing: the objects modified after
\* the cutoff, in listing order
getRecentFiles(store, order, cutoff) ==
  LET listed == SelectSeq(order, LAMBDA k : store[k].lm > cutoff)
  IN [j \in 1..Len(listed) |-> [Key |-> listed[j], LastModified |-> store[listed[j]].lm]]

(***************************************************************************)
(* services/fileManager.js                                                 *)
(***************************************************************************)
\* a skip test that looks at the key only and forgets the timestamp
IsAlreadyProcessed_KeyOnly(pfiles, fileKey, lastModified) ==
  MapHas(pfiles, fileKey)

\* processedFiles[fileKey] && processedFiles[fileKey] === lastModified
IsAlreadyProcessed(pfiles, fileKey, lastModified) ==
  MapHas(pfiles, fileKey) /\ MapGet(pfiles, fileKey) = lastModified

\* a loop that gives up at the first failed fetch
NextIndex_Abort(j, fetchFails, n) == IF fetchFails THEN n + 1 ELSE j + 1

\* where the loop over the files goes after an iteration: the catch around
\* getFileContent swallows the error and the loop moves to the next file
NextIndex(j, fetchFails, n) == j + 1

(***************************************************************************)
(* controllers/newsProcessor.js: content assembly                          *)
(***************************************************************************)
\* an entry that starts from metadata kept from an earlier run
NewContent_WithCached(domain, hash) ==
  [domain |-> domain, hash |-> hash,
   metadata |-> MetaObj(Str("https://ex.com/a"), Str("2024-01-01T00:00:00Z"), Num(1)),
   html |-> "", parsed |-> NULL]

NewContent(domain, hash) ==
  [domain |-> domain, hash |-> hash, metadata |-> MetaNull, html |-> "", parsed |-> NULL]

\* a report of the null results only
IsFailedExtraction_NullOnly(parsedArticle) == IsNull(parsedArticle)

\* !parsedArticle || !parsedArticle.content ||
\* parsedArticle.textContent.trim().length < 100
IsFailedExtraction(parsedArticle) ==
  \/ IsNull(parsedArticle)
  \/ Get(parsedArticle).content = ""
  \/ TrimLength(Get(parsedArticle).textContent) < 100

\* one iteration of the loop over fileContents
AssembleFile(acc, file) ==
  LET domain == Seg(file.key, 2)
      hash == Seg(file.key, 3)
      groupKey == <<domain, hash>>
      entry == IF MapHas(acc.content, groupKey) THEN MapGet(acc.content, groupKey)
               ELSE NewContent(domain, hash)
  IN IF file.type = "metadata"
     THEN LET parsedJson == JSONParse(file.content)
          IN IF parsedJson.ok
             THEN [acc EXCEPT
                     !.content = MapSet(acc.content, groupKey,
                                        [entry EXCEPT !.metadata = parsedJson.value]),
                     !.invalid = IF ~hasValidUrl(parsedJson.value)
                                 THEN Append(acc.invalid, [id |-> groupKey, error |-> ""])
                                 ELSE acc.invalid]
             ELSE [acc EXCEPT
                     !.content = MapSet(acc.content, groupKey,
                                        [entry EXCEPT !.metadata = MetaSentinel]),
                     !.invalid = Append(acc.invalid,
                                        [id |-> groupKey, error |-> "Invalid JSON"])]
     ELSE LET url == OrElse(entry.metadata.url, Str(""))
              parsedArticle == parseHtml(file.content, url)
              isFailed == IsFailedExtraction(parsedArticle)
          IN [acc EXCEPT
                !.content = MapSet(acc.content, groupKey,
                                   [entry EXCEPT !.html = file.content,
                                                 !.parsed = parsedArticle]),
                !.domUrls = Append(acc.domUrls, [id |-> groupKey, given |-> DomUrl(url)]),
                !.failedLinks = IF isFailed
                                THEN Append(acc.failedLinks,
                                            [id |-> groupKey, url |-> url,
                                             parsedNull |-> IsNull(parsedArticle)])
                                ELSE acc.failedLinks]

RECURSIVE AssembleFrom(_, _, _)
AssembleFrom(fileContents, j, acc) ==
  IF j > Len(fileContents) THEN acc
  ELSE AssembleFrom(fileContents, j + 1, AssembleFile(acc, fileContents[j]))

AssembleContent(fileContents) ==
  AssembleFrom(fileContents, 1,
               [content |-> EmptyMap, invalid |-> <<>>, failedLinks |-> <<>>, domUrls |-> <<>>])

\* the article candidates, in the order of Object.keys(processedContent)
RECURSIVE CandidatesFrom(_, _)
CandidatesFrom(content, j) ==
  IF j > Len(content) THEN <<>>
  ELSE createArticleObject(content[j].v) \o CandidatesFrom(content, j + 1)

\* existingArticles[article.id]: undefined is falsy
Exists(existing, id) == MapHas(existing, id) /\ MapGet(existing, id)

(***************************************************************************)
(* The object store between runs: an upload replaces the body of an object *)
(* and stamps it with the current time.                                    *)
(***************************************************************************)
PutMetaBodies == {"m_good", "m_empty", "m_invalid"}
PutHtmlBodies == {"h_long2", "h_none"}

PutObject(k, b) ==
  /\ pc = "idle"
  /\ clock < MaxTime
  /\ clock' = clock + 1
  /\ s3' = [s3 EXCEPT ![k] = [lm |-> clock + 1, body |-> b]]
  /\ UNCHANGED << ledger, articles, pc, runs, runVars, ghostVars, auxVars >>

(***************************************************************************)
(* processRecentFiles, step by step.                                       *)
(***************************************************************************)
\* lines 180-189: read the ledger, list the recent objects
BeginRun(persist, cutoff, readFails, listFails) ==
  /\ pc = "idle"
  /\ saveToMongoDB' = persist
  /\ processedFiles' = getProcessedFiles(ledger, readFails)
  /\ recentFiles' = IF listFails THEN <<>> ELSE getRecentFiles(s3, listing, cutoff)
  /\ idx' = 1
  /\ results' = <<>>
  /\ newlyProcessedFiles' = EmptyMap
  /\ processingResults' = EmptyMap
  /\ processedContent' = EmptyMap
  /\ invalidMetadataUrls' = <<>>
  /\ failedReadabilityLinks' = <<>>
  /\ articleCandidates' = <<>>
  /\ existingArticles' = EmptyMap
  /\ newArticles' = <<>>
  /\ skippedArticles' = <<>>
  /\ outcome' = IF listFails THEN "error" ELSE "none"
  /\ pc' = IF listFails THEN "done" ELSE "fetch"
  /\ fetchLog' = <<>>
  /\ submitted' = <<>>
  /\ ledgerWrites' = 0
  /\ failed' = (IF readFails THEN {"ledgerRead"} ELSE {}) \cup
               (IF listFails THEN {"list"} ELSE {})
  /\ ledgerAtStart' = ledger
  /\ articlesAtStart' = articles
  /\ domLog' = <<>>
  /\ everFailed' = (everFailed \/ readFails)
  /\ UNCHANGED << auxVars, s3, clock, ledger, articles, prev, everFetched >>

\* a run, counted
StartRun(persist, cutoff, readFails, listFails) ==
  /\ runs < MaxRuns
  /\ runs' = runs + 1
  /\ BeginRun(persist, cutoff, readFails, listFails)

\* one iteration of the loop of readHtmlAndMetadata; fetchFails = getFileContent throws
FetchStep(fetchFails) ==
  /\ pc = "fetch"
  /\ idx <= Len(recentFiles)
  /\ LET file == recentFiles[idx]
         fileKey == file.Key
         lastModified == ToISOString(file.LastModified)
         wanted == IsHtmlKey(fileKey) \/ IsMetadataKey(fileKey)
         skip == wanted /\ IsAlreadyProcessed(processedFiles, fileKey, lastModified)
     IN /\ fetchFails => (wanted /\ ~skip)
        /\ IF ~wanted \/ skip
           THEN UNCHANGED << results, newlyProcessedFiles, processingResults, fetchLog, failed >>
           ELSE /\ fetchLog' = Append(fetchLog, fileKey)
                /\ IF fetchFails
                   THEN /\ processingResults' =
                             MapSet(processingResults, fileKey,
                                    [success |-> FALSE, error |-> "fetch error"])
                        /\ failed' = failed \cup {"fetch"}
                        /\ UNCHANGED << results, newlyProcessedFiles >>
                   ELSE /\ newlyProcessedFiles' =
                             MapSet(newlyProcessedFiles, fileKey, lastModified)
                        /\ results' =
                             Append(results,
                                    [key |-> fileKey,
                                     type |-> IF IsHtmlKey(fileKey) THEN "html" ELSE "metadata",
                                     lastModified |-> file.LastModified,
                                     content |-> s3[fileKey].body])
                        /\ processingResults' =
                             MapSet(processingResults, fileKey,
                                    [success |-> TRUE, error |-> ""])
                        /\ UNCHANGED failed
  /\ idx' = NextIndex(idx, fetchFails, Len(recentFiles))
  /\ UNCHANGED << auxVars, s3, clock, ledger, articles, pc, runs, saveToMongoDB, processedFiles,
                  recentFiles, processedContent, invalidMetadataUrls,
                  failedReadabilityLinks, articleCandidates, existingArticles,
                  newArticles, skippedArticles, outcome, submitted, ledgerWrites,
                  domLog, ledgerAtStart, articlesAtStart, prev, everFetched, everFailed >>

\* lines 292-423: assemble the content of the fetched files into candidates
Assemble ==
  /\ pc = "fetch"
  /\ idx > Len(recentFiles)
  /\ LET acc == AssembleContent(results)
     IN /\ processedContent' = acc.content
        /\ invalidMetadataUrls' = acc.invalid
        /\ failedReadabilityLinks' = acc.failedLinks
        /\ domLog' = acc.domUrls
        /\ articleCandidates' = CandidatesFrom(acc.content, 1)
  /\ pc' = "check"
  /\ UNCHANGED << auxVars, s3, clock, ledger, articles, runs, saveToMongoDB, processedFiles,
                  recentFiles, idx, results, newlyProcessedFiles, processingResults,
                  existingArticles, newArticles, skippedArticles, outcome, fetchLog,
                  submitted, ledgerWrites, failed, ledgerAtStart, articlesAtStart, prev,
                  everFetched, everFailed >>

\* lines 425-437: existence check and partition
CheckExisting(dbFails) ==
  /\ pc = "check"
  /\ dbFails => (saveToMongoDB /\ Len(articleCandidates) > 0)
  /\ LET articleIds == [j \in 1..Len(articleCandidates) |-> articleCandidates[j].id]
         existing == IF saveToMongoDB
                     THEN checkExistingArticles(articles, articleIds, dbFails)
                     ELSE EmptyMap
     IN /\ existingArticles' = existing
        /\ newArticles' = SelectSeq(articleCandidates, LAMBDA a : ~Exists(existing, a.id))
        /\ skippedArticles' = SelectSeq(articleCandidates, LAMBDA a : Exists(existing, a.id))
  /\ failed' = IF dbFails THEN failed \cup {"check"} ELSE failed
  /\ everFailed' = (everFailed \/ dbFails)
  /\ pc' = "save"
  /\ UNCHANGED << auxVars, s3, clock, ledger, articles, runs, saveToMongoDB, processedFiles,
                  recentFiles, idx, results, newlyProcessedFiles, processingResults,
                  processedContent, invalidMetadataUrls, failedReadabilityLinks,
                  articleCandidates, outcome, fetchLog, submitted, ledgerWrites,
                  domLog, ledgerAtStart, articlesAtStart, prev, everFetched >>

\* lines 467-475: save the new articles; dbFails = saveArticles throws after the
\* bulkWrite has applied its first `applied` operations
SaveArticles(dbFails, applied) ==
  /\ pc = "save"
  /\ LET saving == saveToMongoDB /\ Len(newArticles) > 0
     IN /\ dbFails => saving
        /\ applied \in 0..Len(newArticles)
        /\ dbFails => applied < Len(newArticles)
        /\ ~dbFails => applied = Len(newArticles)
        /\ IF saving
           THEN /\ submitted' = newArticles
                /\ articles' = BulkUpsertArticles(articles, newArticles, applied)
           ELSE UNCHANGED << submitted, articles >>
  /\ failed' = IF dbFails THEN failed \cup {"save"} ELSE failed
  /\ everFailed' = (everFailed \/ dbFails)
  /\ outcome' = IF dbFails THEN "error" ELSE outcome
  /\ pc' = IF dbFails THEN "done" ELSE "ledger"
  /\ UNCHANGED << auxVars, s3, clock, ledger, runs, saveToMongoDB, processedFiles,
                  recentFiles, idx, results, newlyProcessedFiles, processingResults,
                  processedContent, invalidMetadataUrls, failedReadabilityLinks,
                  articleCandidates, existingArticles, newArticles, skippedArticles,
                  fetchLog, ledgerWrites, domLog, ledgerAtStart, articlesAtStart, prev,
                  everFetched >>

\* lines 485-493: save the newly processed files, then return; dbFails =
\* saveProcessedFiles catches an error and returns false
SaveLedger(dbFails) ==
  /\ pc = "ledger"
  /\ LET saving == Len(newlyProcessedFiles) > 0
         docs == LedgerDocuments(newlyProcessedFiles, processingResults)
     IN /\ dbFails => saving
        /\ IF saving /\ ~dbFails
           THEN /\ ledger' = BulkUpsertRows(ledger, docs, Len(docs))
                /\ ledgerWrites' = ledgerWrites + 1
           ELSE UNCHANGED << ledger, ledgerWrites >>
  /\ failed' = IF dbFails THEN failed \cup {"ledgerWrite"} ELSE failed
  /\ everFailed' = (everFailed \/ dbFails)
  /\ outcome' = "ok"
  /\ pc' = "done"
  /\ UNCHANGED << auxVars, s3, clock, articles, runs, saveToMongoDB, processedFiles,
                  recentFiles, idx, results, newlyProcessedFiles, processingResults,
                  processedContent, invalidMetadataUrls, failedReadabilityLinks,
                  articleCandidates, existingArticles, newArticles, skippedArticles,
                  fetchLog, submitted, domLog, ledgerAtStart, articlesAtStart, prev,
                  everFetched >>

\* the run is over: its caller has the result or the error, and the locals
\* of processRecentFiles are gone
Return ==
  /\ pc = "done"
  /\ pc' = "idle"
  /\ LET okNow == {<<results[j].key, results[j].lastModified>> : j \in 1..Len(results)}
         wrote == ledgerWrites > 0
         attempted == {<<recentFiles[j].Key, recentFiles[j].LastModified>> :
                         j \in {h \in 1..Len(recentFiles) :
                                  \E g \in 1..Len(fetchLog) :
                                    fetchLog[g] = recentFiles[h].Key}}
         reconciledNow == saveToMongoDB /\ outcome = "ok"
     IN /\ prev' = [any |-> TRUE,
                    fetchedOk |-> IF wrote THEN okNow ELSE {},
                    fetched |-> IF "save" \in failed THEN attempted ELSE {},
                    ledgerWriteOk |-> wrote,
                    saveFailed |-> "save" \in failed,
                    candidates |-> IF reconciledNow THEN articleCandidates ELSE <<>>,
                    reconciled |-> reconciledNow]
        /\ everFetched' = IF everFailed THEN {}
                          ELSE IF wrote THEN everFetched \cup okNow
                          ELSE everFetched
  /\ saveToMongoDB' = TRUE
  /\ processedFiles' = EmptyMap
  /\ recentFiles' = <<>>
  /\ idx' = 1
  /\ results' = <<>>
  /\ newlyProcessedFiles' = EmptyMap
  /\ processingResults' = EmptyMap
  /\ processedContent' = EmptyMap
  /\ invalidMetadataUrls' = <<>>
  /\ failedReadabilityLinks' = <<>>
  /\ articleCandidates' = <<>>
  /\ existingArticles' = EmptyMap
  /\ newArticles' = <<>>
  /\ skippedArticles' = <<>>
  /\ outcome' = "none"
  /\ fetchLog' = <<>>
  /\ submitted' = <<>>
  /\ ledgerWrites' = 0
  /\ failed' = {}
  /\ ledgerAtStart' = <<>>
  /\ articlesAtStart' = <<>>
  /\ domLog' = <<>>
  /\ UNCHANGED << auxVars, s3, clock, ledger, articles, runs, everFailed >>

Next ==
  \/ \E k \in LiveKeys :
       \E b \in (IF IsHtmlKey(k) THEN PutHtmlBodies ELSE PutMetaBodies) : PutObject(k, b)
  \/ \E persist \in BOOLEAN, cutoff \in 0..(MaxTime - 1), readFails \in BOOLEAN,
        listFails \in BOOLEAN :
       StartRun(persist, cutoff, readFails, listFails)
  \/ \E fetchFails \in BOOLEAN : FetchStep(fetchFails)
  \/ Assemble
  \/ \E dbFails \in BOOLEAN : CheckExisting(dbFails)
  \/ \E dbFails \in BOOLEAN, applied \in 0..Cardinality(Hashes) : SaveArticles(dbFails, applied)
  \/ \E dbFails \in BOOLEAN : SaveLedger(dbFails)
  \/ Return

Spec == Init /\ [][Next]_vars

TypeOK ==
  /\ pc \in {"idle", "fetch", "check", "save", "ledger", "done"}
  /\ outcome \in {"none", "ok", "error"}
  /\ runs \in 0..MaxRuns
  /\ clock \in 1..MaxTime

(***************************************************************************)
(* One run of processRecentFiles without store failures, over two pairs:   *)
(* every body for the two objects of the first pair, a choice of bodies    *)
(* for the two objects of the second.                                      *)
(***************************************************************************)
OtherMetaBodies == {"m_good", "m_badurl", "m_empty", "m_invalid"}
OtherHtmlBodies == {"h_long2", "h_short", "h_none"}

BodiesOf(k) ==
  IF k \in LiveKeys
  THEN (IF IsHtmlKey(k) THEN HtmlBodies ELSE MetaBodies)
  ELSE (IF IsHtmlKey(k) THEN OtherHtmlBodies ELSE OtherMetaBodies)

InitContent ==
  /\ s3 \in [AllKeys -> [lm : {1}, body : MetaBodies \cup HtmlBodies]]
  /\ \A k \in AllKeys : s3[k].body \in BodiesOf(k)
  /\ listing = ListingOrder
  /\ InitRun
  /\ InitFnIdle
  /\ InitCronIdle

NextContent ==
  \/ runs = 0 /\ StartRun(TRUE, 0, FALSE, FALSE)
  \/ \E fetchFails \in BOOLEAN : FetchStep(fetchFails)
  \/ Assemble
  \/ CheckExisting(FALSE)
  \/ \E applied \in 0..Cardinality(Hashes) : SaveArticles(FALSE, applied)
  \/ SaveLedger(FALSE)
  \/ Return

SpecContent == InitContent /\ [][NextContent]_vars

(***************************************************************************)
(* One run over the first pair and at most one object with a key of        *)
(* another shape, the store listing its keys in any order.                 *)
(***************************************************************************)
ExtraKeys ==
  { <<"", "ex.com", "h1", "sub", "page.html">>,
    <<"", "ex.com", "h1", "index.html">>,
    <<"", "page.html">> }

\* the orders in which a store can list the keys S
Orders(S) ==
  {q \in [1..Cardinality(S) -> S] : \A a, b \in 1..Cardinality(S) : a # b => q[a] # q[b]}

InitListing ==
  /\ \E xs \in {{}} \cup {{x} : x \in ExtraKeys} :
       \E mb \in MetaBodies, hb \in HtmlBodies :
         /\ s3 = [k \in LiveKeys \cup xs |->
                    [lm |-> 1,
                     body |-> IF k \in xs THEN "h_long2"
                              ELSE IF IsHtmlKey(k) THEN hb ELSE mb]]
         /\ listing \in Orders(LiveKeys \cup xs)
  /\ InitRun
  /\ InitFnIdle
  /\ InitCronIdle

NextListing ==
  \/ runs = 0 /\ StartRun(TRUE, 0, FALSE, FALSE)
  \/ \E fetchFails \in BOOLEAN : FetchStep(fetchFails)
  \/ Assemble
  \/ CheckExisting(FALSE)
  \/ \E applied \in 0..Cardinality(Hashes) : SaveArticles(FALSE, applied)
  \/ SaveLedger(FALSE)
  \/ Return

SpecListing == InitListing /\ [][NextListing]_vars

(***************************************************************************)
(* Two overlapping invocations of processRecentFiles with persistence on   *)
(* over an unchanging store.  The first is the run of the actions above;   *)
(* the second is called while the first is in progress.  Its reads of the  *)
(* ledger and of the objects change nothing and are one step; its writes   *)
(* are one step per updateOne of the bulkWrite.                            *)
(***************************************************************************)
\* what readHtmlAndMetadata returns to the second invocation: the wanted
\* files of the listing that the ledger does not record with their timestamp
OtherFileContents ==
  LET pfiles == getProcessedFiles(ledger, FALSE)
      files == getRecentFiles(s3, listing, 0)
      due == SelectSeq(files,
                       LAMBDA f : /\ IsHtmlKey(f.Key) \/ IsMetadataKey(f.Key)
                                  /\ ~IsAlreadyProcessed(pfiles, f.Key,
                                                         ToISOString(f.LastModified)))
  IN [j \in 1..Len(due) |->
        [key |-> due[j].Key,
         type |-> IF IsHtmlKey(due[j].Key) THEN "html" ELSE "metadata",
         lastModified |-> due[j].LastModified,
         content |-> s3[due[j].Key].body]]

\* newlyProcessedFiles and processingResults of the second invocation
RECURSIVE OtherStaged(_, _)
OtherStaged(fileContents, j) ==
  IF j = 0 THEN EmptyMap
  ELSE MapSet(OtherStaged(fileContents, j - 1), fileContents[j].key,
              ToISOString(fileContents[j].lastModified))

RECURSIVE OtherProcessingResults(_, _)
OtherProcessingResults(fileContents, j) ==
  IF j = 0 THEN EmptyMap
  ELSE MapSet(OtherProcessingResults(fileContents, j - 1), fileContents[j].key,
              [success |-> TRUE, error |-> ""])

InitOverlap ==
  /\ \E mb \in {"m_good", "m_nourl", "m_empty"}, hb \in {"h_long1", "h_short", "h_none"} :
       s3 = [k \in AllKeys |->
               [lm |-> 1,
                body |-> IF k \in LiveKeys
                         THEN (IF IsHtmlKey(k) THEN hb ELSE mb)
                         ELSE (IF IsHtmlKey(k) THEN "h_long2" ELSE "m_good")]]
  /\ listing = ListingOrder
  /\ InitRun
  /\ InitFnIdle
  /\ InitCronIdle

\* lines 181-423 of the second invocation: ledger read, listing, fetches and
\* assembly
OtherAssemble ==
  /\ other.pc = "idle"
  /\ pc \in {"fetch", "check", "save", "ledger"}
  /\ LET fileContents == OtherFileContents
     IN other' = [other EXCEPT
                    !.pc = "check",
                    !.results = fileContents,
                    !.articleCandidates =
                       CandidatesFrom(AssembleContent(fileContents).content, 1)]
  /\ UNCHANGED << s3, clock, ledger, articles, pc, runs, runVars, ghostVars, fnVars,
                  cronVars, listing >>

\* lines 425-437 of the second invocation
OtherCheckExisting ==
  /\ other.pc = "check"
  /\ LET candidates == other.articleCandidates
         articleIds == [j \in 1..Len(candidates) |-> candidates[j].id]
         existing == checkExistingArticles(articles, articleIds, FALSE)
     IN other' = [other EXCEPT
                    !.pc = "save",
                    !.next = 1,
                    !.newArticles =
                       SelectSeq(candidates, LAMBDA a : ~Exists(existing, a.id))]
  /\ UNCHANGED << s3, clock, ledger, articles, pc, runs, runVars, ghostVars, fnVars,
                  cronVars, listing >>

\* one updateOne of the bulkWrite of the second invocation; dbFails = the
\* bulkWrite throws at this operation and saveArticles rethrows
OtherSaveOne(dbFails) ==
  /\ other.pc = "save"
  /\ other.next <= Len(other.newArticles)
  /\ IF dbFails
     THEN /\ other' = [other EXCEPT !.pc = "done", !.outcome = "error",
                                     !.submitted = other.newArticles]
          /\ UNCHANGED articles
     ELSE /\ articles' = UpsertArticle(articles, WithId(other.newArticles[other.next]))
          /\ other' = [other EXCEPT !.next = other.next + 1,
                                     !.submitted = other.newArticles]
  /\ UNCHANGED << s3, clock, ledger, pc, runs, runVars, ghostVars, fnVars, cronVars,
                  listing >>

\* lines 485-505 of the second invocation: the ledger write and the return
OtherSaveLedger ==
  /\ other.pc = "save"
  /\ other.next > Len(other.newArticles)
  /\ LET n == Len(other.results)
         docs == LedgerDocuments(OtherStaged(other.results, n),
                                 OtherProcessingResults(other.results, n))
     IN ledger' = IF n > 0 THEN BulkUpsertRows(ledger, docs, Len(docs)) ELSE ledger
  /\ other' = [other EXCEPT !.pc = "done", !.outcome = "ok"]
  /\ UNCHANGED << s3, clock, articles, pc, runs, runVars, ghostVars, fnVars, cronVars,
                  listing >>

NextOverlap ==
  \/ runs = 0 /\ StartRun(TRUE, 0, FALSE, FALSE)
  \/ FetchStep(FALSE)
  \/ Assemble
  \/ CheckExisting(FALSE)
  \/ \E dbFails \in BOOLEAN, applied \in 0..Cardinality(Hashes) : SaveArticles(dbFails, applied)
  \/ SaveLedger(FALSE)
  \/ OtherAssemble
  \/ OtherCheckExisting
  \/ \E dbFails \in BOOLEAN : OtherSaveOne(dbFails)
  \/ OtherSaveLedger

SpecOverlap == InitOverlap /\ [][NextOverlap]_vars

(***************************************************************************)
(* The scheduled service over an unchanging store: the cron job runs the   *)
(* pipeline with persistence on again and again; a fetch can fail in the   *)
(* first runs only, every later fetch succeeds.                            *)
(***************************************************************************)
\* the bodies of a pair that one failure-free run turns into an article
LiveMetaBodies ==
  {b \in MetaBodies :
     /\ JSONParse(b).ok
     /\ hasValidUrl(JSONParse(b).value)
     /\ StartsWithHttp(JSONParse(b).value.url.s)
     /\ ~IsNull(extractMetadata(JSONParse(b).value))}
LiveHtmlBodies == {b \in HtmlBodies : ~IsNull(Readability(b))}

InitLive ==
  /\ \E mb \in LiveMetaBodies, hb \in LiveHtmlBodies :
       s3 = [k \in AllKeys |->
               IF k \in LiveKeys
               THEN [lm |-> 1, body |-> IF IsHtmlKey(k) THEN hb ELSE mb]
               ELSE Absent]
  /\ listing = ListingOrder
  /\ InitRun
  /\ InitFnIdle
  /\ InitCronIdle

\* the cron job starts the next run; runs counts them up to MaxRuns
StartRunLive ==
  /\ runs' = IF runs < MaxRuns THEN runs + 1 ELSE runs
  /\ BeginRun(TRUE, 0, FALSE, FALSE)

NextLive ==
  \/ StartRunLive
  \/ \E fetchFails \in BOOLEAN : (fetchFails => runs < MaxRuns) /\ FetchStep(fetchFails)
  \/ Assemble
  \/ CheckExisting(FALSE)
  \/ \E applied \in 0..Cardinality(Hashes) : SaveArticles(FALSE, applied)
  \/ SaveLedger(FALSE)
  \/ Return

\* the schedule fires every period and each run goes on to its end
SpecLive == InitLive /\ [][NextLive]_vars /\ WF_vars(NextLive)

(***************************************************************************)
(* The functions of services/fileProcessor.js called on their own, on      *)
(* every listing of at most MaxFiles objects over a set of well-formed and *)
(* malformed keys, and on every pair of sub-records.                       *)
(***************************************************************************)
FnKeys ==
  { <<"", "ex.com", "h1", "page.html">>,
    <<"", "ex.com", "h1", "metadata.json">>,
    <<"", "ex.com", "h2", "page.html">>,
    <<"", "news.org", "h1", "metadata.json">>,
    <<"", "ex.com", "h2", "sub", "page.html">>,
    <<"", "ex.com", "h3">>,
    <<"", "ex.com">>,
    <<"ex.com", "h1", "page.html">> }

\* an object of a listing
S3Object(key) == [Key |-> key, Size |-> 1, LastModified |-> 1]

\* listings: keys are pairwise distinct
FnListings ==
  UNION { { [j \in 1..n |-> S3Object(ks[j])] :
              ks \in {q \in [1..n -> FnKeys] : \A a, b \in 1..n : a # b => q[a] # q[b]} } :
          n \in 0..MaxFiles }

\* a sub-record of a ledger pair
SubRecord(key, status) ==
  [path |-> key, lastModified |-> ToISOString(1), status |-> status,
   error |-> IF status = "failed" THEN "fetch error" ELSE ""]

FnSubRecords(key) == {NULL} \cup {Some(SubRecord(key, st)) : st \in {"success", "failed"}}

FnPairs ==
  [html : FnSubRecords(MkKey("ex.com", "h1", htmlFileName)),
   metadata : FnSubRecords(MkKey("ex.com", "h1", metadataFileName))]

NoPair == [html |-> NULL, metadata |-> NULL]

InitFn ==
  /\ s3 = [k \in AllKeys |-> Absent]
  /\ listing = ListingOrder
  /\ InitRun
  /\ InitCronIdle
  /\ \/ /\ fnArg \in [kind : {"files"}, files : FnListings, pair : {NoPair}]
        /\ fnPc = "group"
     \/ /\ fnArg \in [kind : {"pair"}, files : {<<>>}, pair : FnPairs]
        /\ fnPc = "status"
  /\ fnRet = [grouped |-> <<>>, status |-> ""]

\* README.md line 195: groupFilesByHash(recentFiles)
CallGroupFilesByHash ==
  /\ fnPc = "group"
  /\ fnRet' = [fnRet EXCEPT !.grouped = groupFilesByHash(fnArg.files)]
  /\ fnPc' = "identify"
  /\ UNCHANGED << s3, listing, other, clock, ledger, articles, pc, runs, runVars, ghostVars, fnArg, cronVars >>

\* README.md line 198: identifyBrokenLinks(groupedByHash)
CallIdentifyBrokenLinks ==
  /\ fnPc = "identify"
  /\ fnRet' = [fnRet EXCEPT !.grouped = identifyBrokenLinks(fnRet.grouped)]
  /\ fnPc' = "returned"
  /\ UNCHANGED << s3, listing, other, clock, ledger, articles, pc, runs, runVars, ghostVars, fnArg, cronVars >>

\* processedFiles.js line 132: getOverallStatus(pair)
CallGetOverallStatus ==
  /\ fnPc = "status"
  /\ fnRet' = [fnRet EXCEPT !.status = getOverallStatus(fnArg.pair)]
  /\ fnPc' = "returned"
  /\ UNCHANGED << s3, listing, other, clock, ledger, articles, pc, runs, runVars, ghostVars, fnArg, cronVars >>

NextFn ==
  \/ CallGroupFilesByHash
  \/ CallIdentifyBrokenLinks
  \/ CallGetOverallStatus

SpecFn == InitFn /\ [][NextFn]_vars

(***************************************************************************)
(* index.js, command cron: main() registers the schedule and calls         *)
(* processRecentArticles at once; the scheduler calls it again at every    *)
(* minute that is a multiple of the period, whenever the event loop is     *)
(* free, which it is while an invocation awaits the stores.                *)
(***************************************************************************)
CronPeriod == 20

Running == {j \in 1..Len(jobs) : jobs[j].state = "running"}

InitCron ==
  /\ s3 = [k \in AllKeys |-> Absent]
  /\ listing = ListingOrder
  /\ InitRun
  /\ InitFnIdle
  /\ cronPc = "start"
  /\ minute \in 0..(CronPeriod - 1)
  /\ jobs = <<>>

\* lines 2011-2018: cron.schedule(...), then the immediate call, up to its
\* first await
CronStart ==
  /\ cronPc = "start"
  /\ cronPc' = "startup"
  /\ jobs' = Append(jobs, [origin |-> "startup", state |-> "running"])
  /\ UNCHANGED << s3, listing, other, clock, ledger, articles, pc, runs, runVars, ghostVars, fnVars, minute >>

\* line 2018-2021: the await of the immediate call resolves
CronStartupReturns ==
  /\ cronPc = "startup"
  /\ jobs[1].state # "running"
  /\ cronPc' = "service"
  /\ UNCHANGED << s3, listing, other, clock, ledger, articles, pc, runs, runVars, ghostVars, fnVars, minute,
                  jobs >>

\* a minute passes; lines 2013-2015: at a multiple of the period the
\* scheduler calls the task, which calls processRecentArticles
CronTick ==
  /\ cronPc \in {"startup", "service"}
  /\ minute < MaxMinute
  /\ minute' = minute + 1
  /\ jobs' = IF (minute + 1) % CronPeriod = 0
              THEN Append(jobs, [origin |-> "schedule", state |-> "running"])
              ELSE jobs
  /\ UNCHANGED << s3, listing, other, clock, ledger, articles, pc, runs, runVars, ghostVars, fnVars, cronPc >>

\* an invocation whose error goes on to the catch of main, which exits
JobEnds_Rethrow(j, threw) ==
  /\ j \in Running
  /\ jobs' = [jobs EXCEPT ![j].state = IF threw THEN "error" ELSE "completed"]
  /\ cronPc' = IF threw THEN "exited" ELSE cronPc
  /\ UNCHANGED << s3, listing, other, clock, ledger, articles, pc, runs, runVars, ghostVars,
                  fnVars, minute >>

\* lines 1922-1943: processRecentFiles returns, or throws and the catch of
\* processRecentArticles logs the error
JobEnds(j, threw) ==
  /\ j \in Running
  /\ jobs' = [jobs EXCEPT ![j].state = IF threw THEN "error" ELSE "completed"]
  /\ UNCHANGED << s3, listing, other, clock, ledger, articles, pc, runs, runVars, ghostVars, fnVars, cronPc,
                  minute >>

NextCron ==
  \/ CronStart
  \/ CronStartupReturns
  \/ CronTick
  \/ \E j \in 1..Len(jobs), threw \in BOOLEAN : JobEnds(j, threw)

SpecCron == InitCron /\ [][NextCron]_vars

(***************************************************************************)
(* Properties.                                                             *)
(***************************************************************************)
Count(seq, x) == Cardinality({g \in 1..Len(seq) : seq[g] = x})

Wanted(f) == IsHtmlKey(f.Key) \/ IsMetadataKey(f.Key)

\* the ledger map given to the run has this key with this object's timestamp
InLedgerMap(f) ==
  \E e \in 1..Len(processedFiles) :
    /\ processedFiles[e].k = f.Key
    /\ processedFiles[e].v = ToISOString(f.LastModified)

\* the ledger map has this key, with another timestamp
StaleInLedgerMap(f) ==
  \E e \in 1..Len(processedFiles) :
    /\ processedFiles[e].k = f.Key
    /\ processedFiles[e].v # ToISOString(f.LastModified)

FetchFailedFor(key) ==
  \E e \in 1..Len(processingResults) :
    processingResults[e].k = key /\ ~processingResults[e].v.success

Listed(key, lm) ==
  \E j \in 1..Len(recentFiles) :
    recentFiles[j].Key = key /\ recentFiles[j].LastModified = lm

AfterFetchLoop == pc \in {"check", "save", "ledger", "done"}

\* C1: every listed page.html / metadata.json object the loop has handled was
\* fetched zero times if the ledger map of the run has its key with its
\* ISO timestamp, and exactly once otherwise.
C1_SkipIffLedgerTimestamp ==
  \A j \in 1..Len(recentFiles) :
    (Wanted(recentFiles[j]) /\ j < idx)
      => Count(fetchLog, recentFiles[j].Key) =
           IF InLedgerMap(recentFiles[j]) THEN 0 ELSE 1

\* a run that skipped one object and fetched another whose key the ledger map
\* holds with an older timestamp
C1_Witness ==
  /\ pc = "check"
  /\ \E j \in 1..Len(recentFiles) :
       InLedgerMap(recentFiles[j]) /\ Count(fetchLog, recentFiles[j].Key) = 0
  /\ \E j \in 1..Len(recentFiles) :
       StaleInLedgerMap(recentFiles[j]) /\ Count(fetchLog, recentFiles[j].Key) = 1

\* C2: while no store operation has failed, an object fetched successfully by
\* an earlier run that wrote the ledger is not fetched again as long as it is
\* listed with the same key and timestamp.
C2_NoRefetch ==
  (pc # "idle" /\ ~everFailed)
    => \A j \in 1..Len(recentFiles) :
         <<recentFiles[j].Key, recentFiles[j].LastModified>> \in everFetched
           => Count(fetchLog, recentFiles[j].Key) = 0

\* C3: after a run that fetched both objects of the pair and wrote the ledger,
\* a run listing the same two objects with the same timestamps fetches
\* nothing, writes no ledger row and submits no article.
C3_SecondRunIdle ==
  ( /\ pc = "done"
    /\ prev.ledgerWriteOk
    /\ Len(recentFiles) = 2
    /\ GroupKeyOf(recentFiles[1].Key) = GroupKeyOf(recentFiles[2].Key)
    /\ \A j \in 1..2 :
         <<recentFiles[j].Key, recentFiles[j].LastModified>> \in prev.fetchedOk )
    => (Len(fetchLog) = 0 /\ ledgerWrites = 0 /\ submitted = <<>>)

\* C4: a document of the article collection is never changed or removed by a
\* later step.
C4_NeverOverwritten ==
  [][\A j \in 1..Len(articles) :
       \E h \in 1..Len(articles') : articles'[h] = articles[j]]_vars

\* C5: when the reconciliation runs again on the candidates the previous run
\* reconciled, with persistence on, every candidate is skipped and none is new.
C5_SecondReconcileSkipsAll ==
  ( /\ pc \in {"save", "ledger", "done"}
    /\ saveToMongoDB
    /\ prev.reconciled
    /\ Len(articleCandidates) > 0
    /\ articleCandidates = prev.candidates )
    => (newArticles = <<>> /\ skippedArticles = articleCandidates)

\* C6: after content assembly a pair has an article candidate exactly when
\* essential-metadata extraction succeeds on its parsed metadata and the
\* extractor returned a result for its HTML; a pair whose metadata or HTML
\* was not fetched has none.
C6_CandidateIff ==
  AfterFetchLoop =>
    /\ \A e \in 1..Len(processedContent) :
         (\E a \in 1..Len(articleCandidates) :
            articleCandidates[a].id = processedContent[e].k)
           <=> ( /\ ~IsNull(extractMetadata(processedContent[e].v.metadata))
                 /\ ~IsNull(processedContent[e].v.parsed) )
    /\ \A a \in 1..Len(articleCandidates) :
         /\ \E r \in 1..Len(results) :
              /\ results[r].type = "metadata"
              /\ GroupKeyOf(results[r].key) = articleCandidates[a].id
         /\ \E r \in 1..Len(results) :
              /\ results[r].type = "html"
              /\ GroupKeyOf(results[r].key) = articleCandidates[a].id

\* a run that assembled a candidate
C6_Witness ==
  /\ pc = "check"
  /\ Len(articleCandidates) = 1
  /\ Len(results) = 2

\* C7: after a run that returned and whose ledger write did not fail, every
\* object whose fetch failed has a sub-record with status failed and the error
\* message in the row of its pair, and the status of that row is failed.
C7_FailedFetchRecorded ==
  (pc = "done" /\ outcome = "ok" /\ "ledgerWrite" \notin failed)
    => \A e \in 1..Len(processingResults) :
         ~processingResults[e].v.success
           => \E r \in 1..Len(ledger) :
                LET key == processingResults[e].k
                    sub == IF IsHtmlKey(key) THEN ledger[r].html ELSE ledger[r].metadata
                IN /\ ledger[r].pair_id = GroupKeyOf(key)
                   /\ ~IsNull(sub)
                   /\ Get(sub).path = key
                   /\ Get(sub).status = "failed"
                   /\ Get(sub).error = processingResults[e].v.error
                   /\ ledger[r].status = "failed"

\* the objects of the listing the run has to fetch, and those whose fetch worked
DueFiles == SelectSeq(recentFiles, LAMBDA f : Wanted(f) /\ ~InLedgerMap(f))
DueFilesFetched == SelectSeq(DueFiles, LAMBDA f : ~FetchFailedFor(f.Key))

\* C8: once the fetch loop is over, every listed object that was not skipped
\* has been fetched, whether or not an earlier fetch failed, and what goes to
\* content assembly and what is staged for the ledger are what a run over the
\* listing without the failing objects delivers.
C8_FailureIsolated ==
  AfterFetchLoop =>
    /\ fetchLog = [j \in 1..Len(DueFiles) |-> DueFiles[j].Key]
    /\ results = [j \in 1..Len(DueFilesFetched) |->
                    [key |-> DueFilesFetched[j].Key,
                     type |-> IF IsHtmlKey(DueFilesFetched[j].Key) THEN "html" ELSE "metadata",
                     lastModified |-> DueFilesFetched[j].LastModified,
                     content |-> s3[DueFilesFetched[j].Key].body]]
    /\ newlyProcessedFiles = [j \in 1..Len(DueFilesFetched) |->
                                [k |-> DueFilesFetched[j].Key,
                                 v |-> ToISOString(DueFilesFetched[j].LastModified)]]
    /\ LedgerDocuments(newlyProcessedFiles, processingResults) =
         LedgerDocuments(newlyProcessedFiles, EmptyMap)

\* the fetch of the first object failed and the one after it was fetched and
\* delivered
C8_Witness ==
  /\ pc = "check"
  /\ Len(fetchLog) = 2
  /\ FetchFailedFor(fetchLog[1])
  /\ Len(results) = 1
  /\ results[1].key = fetchLog[2]

\* C9: a run whose article save failed ended with an error, wrote no ledger
\* row and left the ledger as it found it; and the objects such a run fetched
\* are fetched again by the next run that lists them unchanged.
C9_SaveFailureLeavesLedger ==
  /\ (pc = "done" /\ "save" \in failed)
       => (outcome = "error" /\ ledgerWrites = 0 /\ ledger = ledgerAtStart)
  /\ (AfterFetchLoop /\ prev.saveFailed)
       => \A o \in prev.fetched :
            Listed(o[1], o[2]) => Count(fetchLog, o[1]) >= 1

StoreSteps == {"ledgerRead", "list", "check", "save", "ledgerWrite"}

\* C10: a finished run ended with an error exactly when a store operation
\* (ledger read, listing, existence check, article save, ledger write) failed
\* during it.
C10_FatalIffStoreFailure ==
  pc = "done" => (outcome = "error" <=> failed \cap StoreSteps # {})

\* C11: every ledger row has hasBoth = (html is not null and metadata is not
\* null).
C11_HasBothInvariant ==
  \A r \in 1..Len(ledger) :
    ledger[r].hasBoth = (~IsNull(ledger[r].html) /\ ~IsNull(ledger[r].metadata))

\* a run has just rewritten a row that had both sub-records into one that has
\* only its HTML sub-record
C11_Witness ==
  /\ pc = "done"
  /\ ledgerWrites = 1
  /\ \E r \in 1..Len(ledger) :
       /\ r <= Len(ledgerAtStart)
       /\ ledgerAtStart[r].hasBoth
       /\ ~ledger[r].hasBoth
       /\ ~IsNull(ledger[r].html)
       /\ IsNull(ledger[r].metadata)

\* C12: for every combination of the html and metadata sub-records being
\* absent, success or failed, getOverallStatus returns unknown when both are
\* absent, otherwise failed when a present one is failed, otherwise incomplete
\* when one is absent, otherwise success; one failed with one absent is failed.
C12_StatusTable ==
  (fnPc = "returned" /\ fnArg.kind = "pair") =>
    LET html == fnArg.pair.html
        metadata == fnArg.pair.metadata
        htmlFailed == ~IsNull(html) /\ Get(html).status = "failed"
        metadataFailed == ~IsNull(metadata) /\ Get(metadata).status = "failed"
    IN /\ fnRet.status =
            IF IsNull(html) /\ IsNull(metadata) THEN "unknown"
            ELSE IF htmlFailed \/ metadataFailed THEN "failed"
            ELSE IF IsNull(html) \/ IsNull(metadata) THEN "incomplete"
            ELSE "success"
       /\ ((htmlFailed /\ IsNull(metadata)) \/ (IsNull(html) /\ metadataFailed))
            => fnRet.status = "failed"

\* the status of a pair with a failed html sub-record and no metadata sub-record
C12_Witness ==
  /\ fnPc = "returned"
  /\ fnArg.kind = "pair"
  /\ ~IsNull(fnArg.pair.html)
  /\ Get(fnArg.pair.html).status = "failed"
  /\ IsNull(fnArg.pair.metadata)
  /\ fnRet.status = "failed"

\* the object of the listing a member file of a group was made from
HasSegments(key) == Len(key) >= 3

\* C13: the pairs groupFilesByHash returns have pairwise distinct identities,
\* each identity is the domain/contentHash of an object of the listing, and
\* every member file of a pair has the domain and the contentHash of the pair
\* in its key.
C13_GroupIdentities ==
  (fnArg.kind = "files" /\ fnPc \in {"identify", "returned"}) =>
    LET grouped == fnRet.grouped
    IN /\ \A a, b \in 1..Len(grouped) : a # b => grouped[a].k # grouped[b].k
       /\ \A a \in 1..Len(grouped) :
            /\ grouped[a].k = <<grouped[a].v.domain, grouped[a].v.hash>>
            /\ \E j \in 1..Len(fnArg.files) :
                 /\ HasSegments(fnArg.files[j].Key)
                 /\ grouped[a].k = <<fnArg.files[j].Key[2], fnArg.files[j].Key[3]>>
            /\ \A f \in 1..Len(grouped[a].v.files) :
                 LET key == grouped[a].v.files[f].key
                 IN /\ HasSegments(key)
                    /\ key[2] = grouped[a].v.domain
                    /\ key[3] = grouped[a].v.hash

\* a listing of three objects grouped into two pairs, one of them with two
\* member files
C13_Witness ==
  /\ fnArg.kind = "files"
  /\ fnPc = "identify"
  /\ Len(fnArg.files) = 3
  /\ Len(fnRet.grouped) = 2
  /\ \E a \in 1..2 : Len(fnRet.grouped[a].v.files) = 2

\* an object of the listing with this file name belongs to the pair
ListedInPair(id, name) ==
  \E j \in 1..Len(fnArg.files) :
    LET key == fnArg.files[j].Key
    IN /\ Len(key) >= 4
       /\ <<key[2], key[3]>> = id
       /\ key[4] = name

\* C14: identifyBrokenLinks sets isBroken = (HTML file name present and
\* metadata file name absent) and isComplete = (both present); no pair is
\* both, a pair with both files is not broken, a pair with only the HTML file
\* is broken and not complete, a pair with only the metadata file is neither.
C14_BrokenAndComplete ==
  (fnArg.kind = "files" /\ fnPc = "returned") =>
    \A a \in 1..Len(fnRet.grouped) :
      LET group == fnRet.grouped[a].v
          hasHtml == ListedInPair(fnRet.grouped[a].k, htmlFileName)
          hasMetadata == ListedInPair(fnRet.grouped[a].k, metadataFileName)
      IN /\ group.isBroken = (hasHtml /\ ~hasMetadata)
         /\ group.isComplete = (hasHtml /\ hasMetadata)
         /\ ~(group.isBroken /\ group.isComplete)
         /\ (hasHtml /\ hasMetadata) => ~group.isBroken
         /\ (hasHtml /\ ~hasMetadata) => (group.isBroken /\ ~group.isComplete)
         /\ (~hasHtml /\ hasMetadata) => (~group.isBroken /\ ~group.isComplete)

\* a listing classified into a complete pair and a broken pair
C14_Witness ==
  /\ fnArg.kind = "files"
  /\ fnPc = "returned"
  /\ \E a, b \in 1..Len(fnRet.grouped) :
       /\ fnRet.grouped[a].v.isComplete
       /\ ~fnRet.grouped[a].v.isBroken
       /\ fnRet.grouped[b].v.isBroken
       /\ ~fnRet.grouped[b].v.isComplete

\* the diagnostics entries and the candidates of a pair
InvalidEntries(id) ==
  {e \in 1..Len(invalidMetadataUrls) : invalidMetadataUrls[e].id = id}

FailedLinkEntries(id) ==
  {e \in 1..Len(failedReadabilityLinks) : failedReadabilityLinks[e].id = id}

HasCandidate(id) ==
  \E a \in 1..Len(articleCandidates) : articleCandidates[a].id = id

\* the metadata objects and the HTML objects fetched in this run
MetadataResults == {r \in 1..Len(results) : results[r].type = "metadata"}
HtmlResults == {r \in 1..Len(results) : results[r].type = "html"}

\* C15: parsed metadata is classified valid exactly when its url is a
\* non-empty string that parses as an absolute URL, and every fetched metadata
\* object that is not valid has exactly one entry in the invalid-metadata
\* diagnostics of the run (a valid one has none).
C15_ValidUrlIff ==
  AfterFetchLoop =>
    \A r \in MetadataResults :
      LET parsedJson == JSONParse(results[r].content)
          metadata == parsedJson.value
          wellFormed == /\ metadata.url.t = "string"
                        /\ metadata.url.s # ""
                        /\ IsAbsoluteUrl(metadata.url.s)
      IN /\ parsedJson.ok => (hasValidUrl(metadata) <=> wellFormed)
         /\ Cardinality(InvalidEntries(GroupKeyOf(results[r].key))) =
              IF parsedJson.ok /\ wellFormed THEN 0 ELSE 1

\* a run that fetched one metadata object with a well-formed url and one with
\* a url that does not parse, and recorded the second only
C15_Witness ==
  /\ pc = "check"
  /\ Cardinality(MetadataResults) = 2
  /\ \E r \in MetadataResults : results[r].content = "m_good"
  /\ \E r \in MetadataResults :
       /\ results[r].content = "m_badurl"
       /\ Cardinality(InvalidEntries(GroupKeyOf(results[r].key))) = 1
  /\ Len(invalidMetadataUrls) = 1

\* C16: a pair whose fetched metadata has an invalid url is in the
\* invalid-metadata diagnostics and has no article candidate.
C16_InvalidUrlExcluded ==
  AfterFetchLoop =>
    \A r \in MetadataResults :
      LET parsedJson == JSONParse(results[r].content)
          id == GroupKeyOf(results[r].key)
      IN (parsedJson.ok /\ ~hasValidUrl(parsedJson.value))
           => (InvalidEntries(id) # {} /\ ~HasCandidate(id))

\* C17: a pair whose extraction result is not null and whose text is under
\* the threshold is in the failed-extraction diagnostics and, given essential
\* metadata, has an article candidate; with essential metadata and the HTML
\* fetched, the pair has a candidate exactly when the result is not null.
C17_ShortTextKept ==
  AfterFetchLoop =>
    \A e \in 1..Len(processedContent) :
      LET id == processedContent[e].k
          content == processedContent[e].v
          essential == ~IsNull(extractMetadata(content.metadata))
          htmlFetched == \E r \in HtmlResults : GroupKeyOf(results[r].key) = id
          short == /\ ~IsNull(content.parsed)
                   /\ TrimLength(Get(content.parsed).textContent) < minContentLength
      IN /\ short => FailedLinkEntries(id) # {}
         /\ (short /\ essential) => HasCandidate(id)
         /\ (essential /\ htmlFetched) => (HasCandidate(id) <=> ~IsNull(content.parsed))

\* a pair with a short text that is reported and is a candidate, next to a
\* pair with essential metadata whose extraction returned null and that is not
C17_Witness ==
  /\ pc = "check"
  /\ Len(articleCandidates) = 1
  /\ articleCandidates[1].content = "short"
  /\ articleCandidates[1].isPotentiallyEmpty
  /\ FailedLinkEntries(articleCandidates[1].id) # {}
  /\ \E e \in 1..Len(processedContent) :
       /\ ~IsNull(extractMetadata(processedContent[e].v.metadata))
       /\ processedContent[e].v.html = "h_none"
       /\ IsNull(processedContent[e].v.parsed)
       /\ ~HasCandidate(processedContent[e].k)

\* one of url, crawl_time, depth is a field of the metadata
HasEssentialField(metadata) ==
  /\ metadata.type # "null"
  /\ \/ metadata.url # Undef
     \/ metadata.crawl_time # Undef
     \/ metadata.depth # Undef

\* C18: essential-metadata extraction succeeds exactly when one of url,
\* crawl_time, depth is present in the metadata, and a pair with none of them
\* has no article candidate, whatever the extraction of its HTML returned.
C18_EssentialIff ==
  AfterFetchLoop =>
    \A e \in 1..Len(processedContent) :
      LET metadata == processedContent[e].v.metadata
      IN /\ ~IsNull(extractMetadata(metadata)) <=> HasEssentialField(metadata)
         /\ ~HasEssentialField(metadata) => ~HasCandidate(processedContent[e].k)

\* a pair with metadata {} and extracted HTML that is no candidate, next to a
\* pair whose metadata has crawl_time only and that is one
C18_Witness ==
  /\ pc = "check"
  /\ \E e \in 1..Len(processedContent) :
       /\ processedContent[e].v.metadata = MetaObj(Undef, Undef, Undef)
       /\ ~IsNull(processedContent[e].v.parsed)
       /\ ~HasCandidate(processedContent[e].k)
  /\ \E e \in 1..Len(processedContent) :
       /\ processedContent[e].v.metadata.url = Undef
       /\ processedContent[e].v.metadata.crawl_time # Undef
       /\ HasCandidate(processedContent[e].k)

\* the fetched files of the other pairs
WithoutPair(fileContents, id) ==
  SelectSeq(fileContents, LAMBDA f : GroupKeyOf(f.key) # id)

\* C19: when a fetched metadata object is not valid JSON the run goes on to
\* its end without an error; the metadata of the pair is the sentinel, the
\* pair has an "Invalid JSON" entry in the invalid-metadata diagnostics and no
\* article candidate; and the content, the diagnostics and the candidates of
\* the other pairs are those of a run that did not fetch this pair.
C19_InvalidJsonIsolated ==
  AfterFetchLoop =>
    \A r \in MetadataResults :
      ~JSONParse(results[r].content).ok =>
        LET id == GroupKeyOf(results[r].key)
            others == AssembleContent(WithoutPair(results, id))
        IN /\ outcome # "error"
           /\ MapHas(processedContent, id)
           /\ MapGet(processedContent, id).metadata = MetaSentinel
           /\ \E e \in InvalidEntries(id) :
                invalidMetadataUrls[e].error = "Invalid JSON"
           /\ ~HasCandidate(id)
           /\ SelectSeq(processedContent, LAMBDA c : c.k # id) = others.content
           /\ SelectSeq(invalidMetadataUrls, LAMBDA c : c.id # id) = others.invalid
           /\ SelectSeq(failedReadabilityLinks, LAMBDA c : c.id # id) = others.failedLinks
           /\ SelectSeq(articleCandidates, LAMBDA c : c.id # id) =
                CandidatesFrom(others.content, 1)

\* a finished run in which the metadata of the first pair was not valid JSON,
\* its HTML was extracted, and the second pair was saved as an article
C19_Witness ==
  /\ pc = "done"
  /\ outcome = "ok"
  /\ Len(results) = 4
  /\ results[1].content = "m_invalid"
  /\ ~IsNull(MapGet(processedContent, GroupKeyOf(results[1].key)).parsed)
  /\ Len(articleCandidates) = 1
  /\ articleCandidates[1].id = <<"ex.com", "h2">>
  /\ Len(articles) = 1

\* C20: in the cron command at most one invocation of processRecentArticles
\* is in progress at any time.
C20_NoOverlap == Cardinality(Running) <= 1

\* /<domain>/<contentHash>/<filename> with one of the two fixed file names
WellFormedKey(key) ==
  /\ Len(key) = 4
  /\ key[1] = ""
  /\ key[4] \in {htmlFileName, metadataFileName}

\* C21: a listed object whose key is not of the shape
\* /<domain>/<contentHash>/<filename> with one of the two fixed file names is
\* never fetched, the candidates of the run are those of its well-formed
\* objects alone, and so is what the run writes to the ledger.
C21_MalformedKeyIgnored ==
  AfterFetchLoop =>
    LET wellFormed == SelectSeq(results, LAMBDA f : WellFormedKey(f.key))
        staged == SelectSeq(newlyProcessedFiles, LAMBDA e : WellFormedKey(e.k))
        docs == LedgerDocuments(staged, processingResults)
    IN /\ \A j \in 1..Len(recentFiles) :
            ~WellFormedKey(recentFiles[j].Key) => Count(fetchLog, recentFiles[j].Key) = 0
       /\ articleCandidates = CandidatesFrom(AssembleContent(wellFormed).content, 1)
       /\ (pc = "done" /\ outcome = "ok")
            => ledger = BulkUpsertRows(ledgerAtStart, docs, Len(docs))

\* C22: no step removes the ledger row of a pair identity, and after every
\* step the ledger has at most one row per pair identity.
C22_RowsNeverDeleted ==
  [][ /\ \A r \in 1..Len(ledger) :
           \E q \in 1..Len(ledger') : ledger'[q].pair_id = ledger[r].pair_id
      /\ \A a, b \in 1..Len(ledger') :
           a # b => ledger'[a].pair_id # ledger'[b].pair_id ]_vars

\* a run has written the row of a pair that already had one, and the ledger
\* still has that one row, with other contents
C22_Witness ==
  /\ pc = "done"
  /\ ledgerWrites = 1
  /\ Len(ledgerAtStart) = 1
  /\ Len(ledger) = 1
  /\ ledger[1].pair_id = ledgerAtStart[1].pair_id
  /\ ledger[1] # ledgerAtStart[1]

\* the sub-record of the object of pair id with this file name, if the run
\* fetched it
FetchedSubRecord(id, name) ==
  LET key == MkKey(id[1], id[2], name)
      fetched == {r \in 1..Len(results) : results[r].key = key}
  IN IF fetched = {} THEN NULL
     ELSE Some([path |-> key,
                lastModified |-> ToISOString(results[CHOOSE r \in fetched : TRUE].lastModified),
                status |-> "success",
                error |-> ""])

\* C23: after a run has written the ledger, the row of every pair it fetched
\* an object of has as html and metadata the sub-records of the objects
\* fetched in this run, null for an object not fetched in this run whatever an
\* earlier run recorded, and hasBoth and status computed from these alone.
C23_WriteReplacesSubRecords ==
  (pc = "done" /\ ledgerWrites = 1) =>
    \A id \in {GroupKeyOf(results[r].key) : r \in 1..Len(results)} :
      LET html == FetchedSubRecord(id, htmlFileName)
          metadata == FetchedSubRecord(id, metadataFileName)
          rows == {r \in 1..Len(ledger) : ledger[r].pair_id = id}
      IN /\ Cardinality(rows) = 1
         /\ \A r \in rows :
              /\ ledger[r].html = html
              /\ ledger[r].metadata = metadata
              /\ ledger[r].hasBoth = (~IsNull(html) /\ ~IsNull(metadata))
              /\ ledger[r].status =
                   IF ~IsNull(html) /\ ~IsNull(metadata) THEN "success" ELSE "incomplete"

\* a run that fetched the metadata object only has replaced the HTML
\* sub-record an earlier run recorded by null
C23_Witness ==
  /\ pc = "done"
  /\ ledgerWrites = 1
  /\ Len(results) = 1
  /\ results[1].type = "metadata"
  /\ Len(ledgerAtStart) = 1
  /\ ~IsNull(ledgerAtStart[1].html)
  /\ IsNull(ledger[1].html)
  /\ ~IsNull(ledger[1].metadata)
  /\ ledger[1].status = "incomplete"

\* the candidate built from a metadata result and an HTML result of this run
CandidateOf(m, h) ==
  LET id == GroupKeyOf(results[h].key)
      metadata == JSONParse(results[m].content)
      url == OrElse(metadata.value.url, Str(""))
  IN IF ~metadata.ok THEN NULL
     ELSE createArticleObject([NewContent(id[1], id[2]) EXCEPT
                                 !.metadata = metadata.value,
                                 !.html = results[h].content,
                                 !.parsed = parseHtml(results[h].content, url)])

\* C24: a pair of which this run fetched only one object has no candidate,
\* whatever earlier runs fetched, and every candidate is the article built
\* from a metadata object and an HTML object both fetched in this run.
C24_SameRunOnly ==
  AfterFetchLoop =>
    /\ \A d \in Domains, h \in Hashes :
         ( (\E r \in MetadataResults : GroupKeyOf(results[r].key) = <<d, h>>)
             # (\E r \in HtmlResults : GroupKeyOf(results[r].key) = <<d, h>>) )
           => ~HasCandidate(<<d, h>>)
    /\ \A a \in 1..Len(articleCandidates) :
         \E m \in MetadataResults, h \in HtmlResults :
           /\ GroupKeyOf(results[m].key) = articleCandidates[a].id
           /\ GroupKeyOf(results[h].key) = articleCandidates[a].id
           /\ CandidateOf(m, h) = << articleCandidates[a] >>

\* a run that fetched the HTML object only, the metadata object having been
\* fetched and recorded by an earlier run, and built no candidate
C24_Witness ==
  /\ pc = "check"
  /\ Len(results) = 1
  /\ results[1].type = "html"
  /\ ~IsNull(Readability(results[1].content))
  /\ Len(ledgerAtStart) = 1
  /\ ~IsNull(ledgerAtStart[1].metadata)
  /\ articleCandidates = <<>>

\* C25: with the store unchanged, persistence on and fetch failures confined
\* to the first runs, a complete pair with essential metadata and extractable
\* HTML is eventually persisted as an article.
C25_EventuallyPersisted == <>HasArticle(articles, <<"ex.com", "h1">>)

\* the parsed metadata of pair id fetched in this run is valid under the
\* URL-validity rule
ValidMetadataFetched(id) ==
  \E r \in MetadataResults :
    /\ GroupKeyOf(results[r].key) = id
    /\ JSONParse(results[r].content).ok
    /\ hasValidUrl(JSONParse(results[r].content).value)

FetchedMetadataUrl(id) ==
  LET r == CHOOSE r \in MetadataResults : GroupKeyOf(results[r].key) = id
  IN JSONParse(results[r].content).value.url.s

\* C26: every base URL given to the extractor with the HTML of a pair is the
\* URL of the pair's metadata when that metadata is valid under the
\* URL-validity rule and the placeholder URL when it is not, wherever the
\* metadata object stands in the listing.
C26_BaseUrlGiven ==
  AfterFetchLoop =>
    \A e \in 1..Len(domLog) :
      ~IsNull(domLog[e].given) =>
        Get(domLog[e].given) = IF ValidMetadataFetched(domLog[e].id)
                               THEN FetchedMetadataUrl(domLog[e].id)
                               ELSE defaultUrl

Range(q) == {q[j] : j \in 1..Len(q)}

\* the fetched files taken in the order p
Reordered(p) == [j \in 1..Len(results) |-> results[p[j]]]

\* what a run computes from the fetched files, as sets
OutcomeOf(fileContents) ==
  LET acc == AssembleContent(fileContents)
  IN [candidates |-> Range(CandidatesFrom(acc.content, 1)),
      invalid |-> Range(acc.invalid),
      failedLinks |-> Range(acc.failedLinks),
      staged |-> {<<fileContents[j].key, fileContents[j].lastModified>> :
                    j \in 1..Len(fileContents)}]

\* C27: the candidates, the two diagnostics lists and the staged ledger
\* entries of a run over well-formed keys are those of the run that takes the
\* same objects in any other order.
C27_OrderIndependent ==
  (AfterFetchLoop /\ \A r \in 1..Len(results) : WellFormedKey(results[r].key)) =>
    /\ Range(articleCandidates) = OutcomeOf(results).candidates
    /\ Range(invalidMetadataUrls) = OutcomeOf(results).invalid
    /\ Range(failedReadabilityLinks) = OutcomeOf(results).failedLinks
    /\ \A p \in Orders(1..Len(results)) : OutcomeOf(Reordered(p)) = OutcomeOf(results)

\* C28: after the existence check of a run with persistence on, the skipped
\* list holds exactly the candidates whose identity is in the article store
\* and the new list exactly the others, each candidate once, and what the run
\* submits for writing is the new list.
C28_Partition ==
  /\ (pc = "save" /\ saveToMongoDB) =>
        /\ skippedArticles =
             SelectSeq(articleCandidates, LAMBDA a : HasArticle(articles, a.id))
        /\ newArticles =
             SelectSeq(articleCandidates, LAMBDA a : ~HasArticle(articles, a.id))
        /\ Len(skippedArticles) + Len(newArticles) = Len(articleCandidates)
  /\ (pc \in {"ledger", "done"} /\ saveToMongoDB) => submitted \in {<<>>, newArticles}

\* C29: a run without persistence that has returned has left the articles
\* and the ledger as they were when it started.
C29_NoWriteWithoutPersist ==
  (pc = "done" /\ ~saveToMongoDB) =>
    /\ articles = articlesAtStart
    /\ ledger = ledgerAtStart

\* the metadata results of this run whose crawl_time is a string that does not
\* parse as a date
UnparsableCrawlTime ==
  {r \in MetadataResults :
     LET metadata == JSONParse(results[r].content)
     IN /\ metadata.ok
        /\ metadata.value.type = "object"
        /\ Truthy(metadata.value.crawl_time)
        /\ NewDate(metadata.value.crawl_time.s) = DateOf("Invalid Date")}

\* C30: for metadata whose crawl_time does not parse as a date,
\* essential-metadata extraction succeeds and the article candidate of the pair
\* has a crawl_datetime that is absent or null.
C30_NoCrawlDatetime ==
  AfterFetchLoop =>
    \A r \in UnparsableCrawlTime :
      /\ ~IsNull(extractMetadata(JSONParse(results[r].content).value))
      /\ \A a \in 1..Len(articleCandidates) :
           articleCandidates[a].id = GroupKeyOf(results[r].key)
             => articleCandidates[a].crawl_datetime \in {JsNull, Undef}

\* the member files of the pairs from position a on, counted
RECURSIVE MemberCount(_, _)
MemberCount(grouped, a) ==
  IF a > Len(grouped) THEN 0
  ELSE Len(grouped[a].v.files) + MemberCount(grouped, a + 1)

\* the places (pair, position) where an object key is a member file
MemberPlaces(grouped, key) ==
  {<<a, f>> \in (1..Len(grouped)) \X (1..MaxFiles) :
     /\ f <= Len(grouped[a].v.files)
     /\ grouped[a].v.files[f].key = key}

\* C31: groupFilesByHash returns, every object of the listing whose key has at
\* least 3 segments is a member file of exactly one pair, an object whose key
\* has fewer is a member of none, and the member files of all pairs are as
\* many as the objects with at least 3 segments.
C31_GroupsEveryLongKey ==
  (fnArg.kind = "files" /\ fnPc \in {"identify", "returned"}) =>
    LET grouped == fnRet.grouped
        kept == {j \in 1..Len(fnArg.files) : HasSegments(fnArg.files[j].Key)}
    IN /\ \A j \in 1..Len(fnArg.files) :
            Cardinality(MemberPlaces(grouped, fnArg.files[j].Key))
              = IF j \in kept THEN 1 ELSE 0
       /\ MemberCount(grouped, 1) = Cardinality(kept)

\* a listing of three objects, one with a key of two segments and one with a
\* key of three, grouped: the first is dropped and the second is kept
C31_Witness ==
  /\ fnArg.kind = "files"
  /\ fnPc = "identify"
  /\ Len(fnArg.files) = 3
  /\ \E j \in 1..3 : Len(fnArg.files[j].Key) = 2
  /\ \E j \in 1..3 : Len(fnArg.files[j].Key) = 3
  /\ MemberCount(fnRet.grouped, 1) = 2

\* the article documents with this identity
DocumentsOf(id) == {j \in 1..Len(articles) : articles[j]["_id"] = id}

\* an invocation has had this identity written by its bulkWrite
FirstWrote(id) ==
  /\ pc \in {"ledger", "done"}
  /\ "save" \notin failed
  /\ \E a \in 1..Len(submitted) : submitted[a].id = id

OtherWrote(id) ==
  \E a \in 1..Len(other.newArticles) :
    /\ other.newArticles[a].id = id
    /\ a < other.next

\* C32: with two overlapping runs, the article store never holds two
\* documents of one identity, and holds exactly one for an identity that a run
\* has written, also when both runs classified it as new and both wrote it.
C32_OneDocument ==
  \A d \in Domains, h \in Hashes :
    /\ Cardinality(DocumentsOf(<<d, h>>)) <= 1
    /\ (FirstWrote(<<d, h>>) \/ OtherWrote(<<d, h>>))
         => Cardinality(DocumentsOf(<<d, h>>)) = 1

\* both runs have classified the same identity as new, both have written
\* it, and the store holds one document of it
C32_Witness ==
  /\ FirstWrote(<<"ex.com", "h2">>)
  /\ OtherWrote(<<"ex.com", "h2">>)
  /\ \E a \in 1..Len(newArticles) : newArticles[a].id = <<"ex.com", "h2">>
  /\ Cardinality(DocumentsOf(<<"ex.com", "h2">>)) = 1

\* C33: every article candidate flagged isPotentiallyEmpty belongs to a pair
\* that the failed-extraction diagnostics of the run report.
C33_FlaggedIsReported ==
  AfterFetchLoop =>
    \A a \in 1..Len(articleCandidates) :
      articleCandidates[a].isPotentiallyEmpty
        => FailedLinkEntries(articleCandidates[a].id) # {}

\* a run with a flagged candidate, built from a text shorter than
\* minContentLength
C33_Witness ==
  /\ pc = "check"
  /\ \E a \in 1..Len(articleCandidates) :
       /\ articleCandidates[a].isPotentiallyEmpty
       /\ articleCandidates[a].contentLength < minContentLength
       /\ articleCandidates[a].contentLength > 0

\* a field of a candidate is the field of the metadata when the metadata has
\* it, and is the empty string only when the metadata has none (or has the
\* empty string)
FieldKept(candidateField, metadataField) ==
  /\ metadataField # Undef => candidateField = metadataField
  /\ candidateField = Str("") => metadataField \in {Undef, Str("")}

\* C34: the url, crawl_time and depth of every article candidate are those of
\* the metadata of its pair when the metadata has them, a depth of 0 included,
\* and the empty string only when it has not.
C34_FieldsKept ==
  AfterFetchLoop =>
    \A a \in 1..Len(articleCandidates) :
      LET metadata == MapGet(processedContent, articleCandidates[a].id).metadata
      IN /\ FieldKept(articleCandidates[a].url, metadata.url)
         /\ FieldKept(articleCandidates[a].crawl_time, metadata.crawl_time)
         /\ FieldKept(articleCandidates[a].depth, metadata.depth)

\* C35: no step of the cron command takes the started service out of service,
\* whatever the runs ended with, and at every multiple of the period the
\* schedule starts a run.
C35_ServiceSurvives ==
  [][ /\ cronPc \in {"startup", "service"} => cronPc' \in {"startup", "service"}
      /\ (minute' # minute /\ minute' % CronPeriod = 0) =>
           /\ Len(jobs') = Len(jobs) + 1
           /\ jobs'[Len(jobs')] = [origin |-> "schedule", state |-> "running"] ]_vars

\* a run has ended with an error and the schedule has started a run after that
C35_Witness ==
  \E j \in 1..Len(jobs) :
    /\ jobs[j].state = "error"
    /\ \E q \in 1..Len(jobs) :
         /\ q > j
         /\ jobs[q].origin = "schedule"
         /\ jobs[q].state = "running"

====
